---- MODULE Spec2Model ----
(***************************************************************************)
(* Model of prometheus-tsdb-dump: the query loop of run / runDumpIndex     *)
(* (src/main.go), the chunk record readers (src/pkg/chunkreader/s3.go)     *)
(* and the remote index byte slice (src/pkg/chunkreader/s3index.go).       *)
(***************************************************************************)
EXTENDS Integers, Sequences, FiniteSets, TLC

VARIABLES
    (* inputs of run / runDumpIndex *)
    mode, labelKey, labelValue, labelValues, metricName, minTimestamp,
    maxTimestamp,
    fault, lib, externalLabelsMap, outFormat,
    (* locals of run / runDumpIndex *)
    pc, lk, lvs, externalLabels, wr, metricPostings, vi, postings, ref, chks, ci,
    err, ret,
    (* what the collaborators saw *)
    emitted, sink,
    (* a chunk segment, a record stored in it and one call of Chunk(ref) *)
    segment, offset, stored, flip, cut, cpc, result,
    (* an s3ByteSlice, the object behind it and the requests its backend saw *)
    object, backend, size, rpc, requests, got, calls, opErr,
    (* a chunk reference, the build's int width and what Chunk makes of it *)
    chunkRef, intBits, segNo, segOff, objKey, spc

queryVars == << mode, labelKey, labelValue, labelValues, metricName, minTimestamp,
                maxTimestamp, fault, lib, externalLabelsMap, outFormat, pc,
                lk, lvs, externalLabels, wr, metricPostings, vi, postings, ref, chks, ci,
                err, ret, emitted, sink >>

codecVars == << segment, offset, stored, flip, cut, cpc, result >>

sliceVars == << object, backend, size, rpc, requests, got, calls, opErr >>

refVars == << chunkRef, intBits, segNo, segOff, objKey, spc >>

vars == << queryVars, codecVars, sliceVars, refVars >>

\* the parts of the state a specification does not use stay as they are here
CodecIdle ==
    /\ segment = << >>
    /\ offset = 0
    /\ stored = << >>
    /\ flip = -1
    /\ cut = -1
    /\ cpc = "idle"
    /\ result = << >>

QueryIdle ==
    /\ mode = "none"
    /\ labelKey = ""
    /\ labelValue = << >>
    /\ labelValues = << >>
    /\ metricName = ""
    /\ minTimestamp = 0
    /\ maxTimestamp = 0
    /\ fault = << >>
    /\ lib = "none"
    /\ externalLabelsMap = {}
    /\ outFormat = ""
    /\ externalLabels = << >>
    /\ wr = ""
    /\ pc = "idle"
    /\ lk = ""
    /\ lvs = << >>
    /\ metricPostings = << >>
    /\ vi = 0
    /\ postings = << >>
    /\ ref = 0
    /\ chks = << >>
    /\ ci = 0
    /\ err = ""
    /\ ret = ""
    /\ emitted = << >>
    /\ sink = << >>

SliceIdle ==
    /\ object = << >>
    /\ backend = "none"
    /\ size = 0
    /\ rpc = "idle"
    /\ requests = << >>
    /\ got = << >>
    /\ calls = << >>
    /\ opErr = << >>

RefIdle ==
    /\ chunkRef = << >>
    /\ intBits = 0
    /\ segNo = << >>
    /\ segOff = << >>
    /\ objKey = << >>
    /\ spc = "idle"

\* what no step of run or runDumpIndex changes
inputs == << mode, labelKey, labelValue, labelValues, metricName, minTimestamp,
             maxTimestamp, fault, lib, externalLabelsMap, outFormat, codecVars,
             sliceVars, refVars >>

-----------------------------------------------------------------------------
(* Bounds *)

\* longest labelValues list handed to run
MaxValues == 2

\* longest -label-value flag given, past the flags that list MaxValues values
MaxFlagLen == 4

-----------------------------------------------------------------------------
(* Errors: Go's nil error and pkgerrors.Wrap *)

NilErr == "nil"

\* pkgerrors.Wrap(err, msg): nil when err is nil, else an error named msg
Wrap(e, msg) == IF e = NilErr THEN NilErr ELSE msg

-----------------------------------------------------------------------------
(* The block under test: an index of four series and their chunks *)

MetricNameLabel == "__name__"

\* index.AllPostingsKey() returns the empty label
AllPostingsKey == [key |-> "", value |-> ""]

Fin(x) == [kind |-> "fin", x |-> x]
NaN == [kind |-> "nan", x |-> 0]
PosInf == [kind |-> "pinf", x |-> 0]
NegInf == [kind |-> "ninf", x |-> 0]

Sample(t, v) == [t |-> t, v |-> v]

\* series reference -> label set and chunk metadata, as indexr.Series fills them
BlockSeries ==
    [r \in 1..4 |->
        CASE r = 1 -> [lset |-> << <<"__name__", "up">>, <<"k", "a">> >>,
                       chks |-> <<10, 11, 12>>]
          [] r = 2 -> [lset |-> << <<"__name__", "http">>, <<"k", "a">> >>,
                       chks |-> <<20>>]
          [] r = 3 -> [lset |-> << <<"__name__", "up">>, <<"k", "b">> >>,
                       chks |-> <<30>>]
          [] r = 4 -> [lset |-> << <<"__name__", "up">>, <<"k", "a">> >>,
                       chks |-> <<40>>]]

SeriesRefs == DOMAIN BlockSeries

\* chunk reference -> decoded sample stream
BlockChunks ==
    [c \in {10, 11, 12, 20, 30, 40} |->
        CASE c = 10 -> << Sample(1, Fin(1)), Sample(2, NaN), Sample(3, Fin(1)) >>
          [] c = 11 -> << Sample(4, PosInf), Sample(5, NegInf) >>
          [] c = 12 -> << Sample(3, Fin(2)), Sample(4, Fin(3)) >>
          [] c = 20 -> << Sample(1, Fin(5)), Sample(6, Fin(7)) >>
          [] c = 30 -> << Sample(2, NaN) >>
          [] c = 40 -> << Sample(0, Fin(9)), Sample(1, NegInf), Sample(2, Fin(4)) >>]

ChunkRefs == DOMAIN BlockChunks

HasLabel(r, name, value) ==
    \E i \in 1..Len(BlockSeries[r].lset) :
        BlockSeries[r].lset[i] = <<name, value>>

\* the set of series a postings list of the index holds
PostingsSet(name, value) ==
    IF name = AllPostingsKey.key /\ value = AllPostingsKey.value
    THEN SeriesRefs
    ELSE {r \in SeriesRefs : HasLabel(r, name, value)}

RECURSIVE SortedSeq(_)
SortedSeq(S) ==
    IF S = {} THEN << >>
    ELSE LET m == CHOOSE x \in S : \A y \in S : x <= y
         IN <<m>> \o SortedSeq(S \ {m})

\* a postings list that holds every series reference twice
PostingsListTwice(name, value) ==
    LET l == SortedSeq(PostingsSet(name, value))
    IN [i \in 1..(2 * Len(l)) |-> l[(i + 1) \div 2]]

\* the postings list stored in the index, sorted by series reference
PostingsList(name, value) == SortedSeq(PostingsSet(name, value))

-----------------------------------------------------------------------------
(* index.Postings iterators (prometheus tsdb/index/postings.go, as used by  *)
(* run through indexr.Postings and index.Intersect)                        *)

\* An iterator is a record: kind, the list not yet read, cur (what At()
\* returns) and, for an intersection, acur (the At() of its first member, whose
\* unread list is list; its second member is the object metricPostings).

\* the nil index.Postings of "var metricPostings index.Postings"
NoPostings == [kind |-> "nil", list |-> << >>, cur |-> 0, acur |-> 0]

EmptyPostings == [kind |-> "empty", list |-> << >>, cur |-> 0, acur |-> 0]

NewListPostings(l) == [kind |-> "list", list |-> l, cur |-> 0, acur |-> 0]

\* indexr.Postings(name, value): the stored list, or EmptyPostings() when the
\* index has no entry for the pair
ReaderPostings(name, value) ==
    IF PostingsSet(name, value) = {} THEN EmptyPostings
    ELSE NewListPostings(PostingsList(name, value))

\* bigEndianPostings.Next
ListNext(p) ==
    IF Len(p.list) >= 1
    THEN [ok |-> TRUE, p |-> [p EXCEPT !.cur = Head(p.list), !.list = Tail(p.list)]]
    ELSE [ok |-> FALSE, p |-> p]

\* bigEndianPostings.Seek
ListSeek(p, x) ==
    IF p.cur >= x THEN [ok |-> TRUE, p |-> p]
    ELSE LET hits == {i \in 1..Len(p.list) : p.list[i] >= x}
         IN IF hits # {}
            THEN LET i == CHOOSE j \in hits : \A h \in hits : j <= h
                 IN [ok |-> TRUE,
                     p |-> [p EXCEPT !.cur = p.list[i],
                                     !.list = SubSeq(p.list, i + 1, Len(p.list))]]
            ELSE [ok |-> FALSE, p |-> [p EXCEPT !.list = << >>]]

\* intersectPostings.doNext of the n-ary iterator over arr = (a, m)
RECURSIVE NaryDoNext(_, _, _)
NaryDoNext(a, m, cur) ==
    LET sa == ListSeek(a, cur) IN
    IF ~sa.ok THEN [ok |-> FALSE, a |-> sa.p, m |-> m, cur |-> cur]
    ELSE IF sa.p.cur > cur THEN NaryDoNext(sa.p, m, sa.p.cur)
    ELSE LET sm == ListSeek(m, cur) IN
         IF ~sm.ok THEN [ok |-> FALSE, a |-> sa.p, m |-> sm.p, cur |-> cur]
         ELSE IF sm.p.cur > cur THEN NaryDoNext(sa.p, sm.p, sm.p.cur)
         ELSE [ok |-> TRUE, a |-> sa.p, m |-> sm.p, cur |-> cur]

\* intersectPostings.Next of the n-ary iterator
NaryNext(a, m, cur) ==
    LET na == ListNext(a) IN
    IF ~na.ok THEN [ok |-> FALSE, a |-> na.p, m |-> m, cur |-> cur]
    ELSE LET c1 == IF na.p.cur > cur THEN na.p.cur ELSE cur
             nm == ListNext(m)
         IN IF ~nm.ok THEN [ok |-> FALSE, a |-> na.p, m |-> nm.p, cur |-> c1]
            ELSE LET c2 == IF nm.p.cur > c1 THEN nm.p.cur ELSE c1
                 IN NaryDoNext(na.p, nm.p, c2)

\* intersectPostings.doNext of the pairwise iterator (a, b = m)
RECURSIVE PairDoNext(_, _, _, _)
PairDoNext(a, m, cur, id) ==
    LET sm == ListSeek(m, id) IN
    IF ~sm.ok THEN [ok |-> FALSE, a |-> a, m |-> sm.p, cur |-> cur]
    ELSE IF sm.p.cur # id
    THEN LET sa == ListSeek(a, sm.p.cur) IN
         IF ~sa.ok THEN [ok |-> FALSE, a |-> sa.p, m |-> sm.p, cur |-> cur]
         ELSE IF sa.p.cur # sm.p.cur
              THEN PairDoNext(sa.p, sm.p, cur, sa.p.cur)
              ELSE [ok |-> TRUE, a |-> sa.p, m |-> sm.p, cur |-> sa.p.cur]
    ELSE [ok |-> TRUE, a |-> a, m |-> sm.p, cur |-> id]

\* intersectPostings.Next of the pairwise iterator
PairNext(a, m, cur) ==
    LET na == ListNext(a) IN
    IF ~na.ok THEN [ok |-> FALSE, a |-> na.p, m |-> m, cur |-> cur]
    ELSE PairDoNext(na.p, m, cur, na.p.cur)

\* index.Intersect(p, m): EmptyPostings() when either side is it, else an
\* iterator that holds p and the very object m
Intersect(p, m) ==
    IF p.kind = "empty" \/ m.kind = "empty" THEN EmptyPostings
    ELSE [kind |-> "intersect", list |-> p.list, cur |-> 0, acur |-> p.cur]

\* postings.Next() on the iterator p of the current value; m is the state of
\* the object metricPostings, which an intersection advances
PostingsNext(p, m, version) ==
    CASE p.kind = "empty" -> [ok |-> FALSE, p |-> p, m |-> m]
      [] p.kind = "list" ->
            LET n == ListNext(p) IN [ok |-> n.ok, p |-> n.p, m |-> m]
      [] p.kind = "intersect" ->
            LET a == [kind |-> "list", list |-> p.list, cur |-> p.acur, acur |-> 0]
                n == IF version = "nary" THEN NaryNext(a, m, p.cur)
                     ELSE PairNext(a, m, p.cur)
            IN [ok |-> n.ok,
                p |-> [p EXCEPT !.list = n.a.list, !.acur = n.a.cur, !.cur = n.cur],
                m |-> n.m]

-----------------------------------------------------------------------------
(* The sample filter of run *)

IsNaN(v) == v.kind = "nan"

\* math.IsInf(v, sign)
IsInf(v, sign) ==
    \/ sign >= 0 /\ v.kind = "pinf"
    \/ sign <= 0 /\ v.kind = "ninf"

\* FilterSamples with the window bounds taken as exclusive
RECURSIVE FilterSamplesExclusive(_, _, _)
FilterSamplesExclusive(s, lo, hi) ==
    IF s = << >> THEN << >>
    ELSE LET x == Head(s)
             rest == FilterSamplesExclusive(Tail(s), lo, hi)
         IN IF IsNaN(x.v) THEN rest
            ELSE IF IsInf(x.v, -1) \/ IsInf(x.v, 1) THEN rest
            ELSE IF x.t <= lo \/ hi <= x.t THEN rest
            ELSE <<x>> \o rest

\* the loop "for it.Next()" of run over the samples the iterator yields
RECURSIVE FilterSamples(_, _, _)
FilterSamples(s, lo, hi) ==
    IF s = << >> THEN << >>
    ELSE LET x == Head(s)
             rest == FilterSamples(Tail(s), lo, hi)
         IN IF IsNaN(x.v) THEN rest
            ELSE IF IsInf(x.v, -1) \/ IsInf(x.v, 1) THEN rest
            ELSE IF x.t < lo \/ hi < x.t THEN rest
            ELSE <<x>> \o rest

Timestamps(s) == [i \in 1..Len(s) |-> s[i].t]
Values(s) == [i \in 1..Len(s) |-> s[i].v]

\* a map of the label set in which the first entry of a name wins
LabelsMapFirst(lset) ==
    [n \in {lset[i][1] : i \in 1..Len(lset)} |->
        LET first == CHOOSE i \in 1..Len(lset) :
                         /\ lset[i][1] = n
                         /\ \A j \in 1..Len(lset) : lset[j][1] = n => i <= j
        IN lset[first][2]]

\* "metric[l.Name] = l.Value" over the label set: the last entry of a name wins
LabelsMap(lset) ==
    [n \in {lset[i][1] : i \in 1..Len(lset)} |->
        LET last == CHOOSE i \in 1..Len(lset) :
                        /\ lset[i][1] = n
                        /\ \A j \in 1..Len(lset) : lset[j][1] = n => j <= i
        IN lset[last][2]]

-----------------------------------------------------------------------------
(* Inputs *)

Modes == {"run", "dumpIndex"}

LabelKeys == {"", "k"}

ValueNames == {"a", "b", "zz"}

MetricNames == {"", "up", "nometric"}

\* (minTimestamp, maxTimestamp) pairs; the first is the flags' default window
Windows == { <<0, 9>>, <<1, 3>> }

\* the characters of a -label-value flag
Alphabet == {"a", "b", ",", " ", "\t"}

\* unicode.IsSpace on the characters of one byte
IsSpace(c) == c \in {" ", "\t", "\n", "\r", "\f"}

\* strings.Split(v, ","): cut at the first separator, then split the rest
RECURSIVE Split(_)
Split(v) ==
    IF \A i \in 1..Len(v) : v[i] # ","
    THEN << v >>
    ELSE LET m == CHOOSE i \in 1..Len(v) :
                      v[i] = "," /\ \A j \in 1..(i - 1) : v[j] # ","
         IN << SubSeq(v, 1, m - 1) >> \o Split(SubSeq(v, m + 1, Len(v)))

RECURSIVE TrimLeft(_)
TrimLeft(p) ==
    IF p # << >> /\ IsSpace(p[1]) THEN TrimLeft(Tail(p)) ELSE p

RECURSIVE TrimRight(_)
TrimRight(p) ==
    IF p # << >> /\ IsSpace(p[Len(p)])
    THEN TrimRight(SubSeq(p, 1, Len(p) - 1))
    ELSE p

\* TrimSpace that strips the leading white space only
TrimSpaceLeading(p) == TrimLeft(p)

\* strings.TrimSpace(p)
TrimSpace(p) == TrimRight(TrimLeft(p))

\* the Go string of a sequence of characters
RECURSIVE String(_)
String(cs) == IF cs = << >> THEN "" ELSE cs[1] \o String(Tail(cs))

\* parseLabelValues(v); the nil slice of the empty flag and the empty slice
\* are both the empty list
RECURSIVE AppendTrimmed(_, _)
AppendTrimmed(res, parts) ==
    IF parts = << >>
    THEN res
    ELSE LET t == TrimSpace(Head(parts))
         IN AppendTrimmed(IF t # << >> THEN Append(res, String(t)) ELSE res,
                          Tail(parts))

parseLabelValues(v) ==
    IF v = << >> THEN << >> ELSE AppendTrimmed(<< >>, Split(v))

RECURSIVE SeqsUpTo(_, _)
SeqsUpTo(S, n) ==
    IF n = 0 THEN { << >> }
    ELSE LET shorter == SeqsUpTo(S, n - 1)
         IN shorter \cup {Append(q, x) : q \in {r \in shorter : Len(r) = n - 1}, x \in S}

\* the maps the external labels JSON decodes to: none, one label with the
\* name of a label of the series, and that one with a further label
ExternalMaps ==
    { {}, { <<"k", "x">> }, { <<"k", "x">>, <<"region", "eu">> } }

\* the names of output formats given: the one NewWriter knows, and two it
\* rejects
OutFormats == {"victoriametrics", "csv", ""}

\* the nil Writer
NilWriter == "nil writer"

\* writer.NewWriter(format, out)
NewWriter(format) ==
    IF format = "victoriametrics"
    THEN [wr |-> "VictoriaMetricsWriter", err |-> NilErr]
    ELSE [wr |-> NilWriter, err |-> "invalid format"]

\* the strings of ValueNames, character by character
ValueChars == { <<"a">>, <<"b">>, <<"z", "z">> }

\* the flag that lists the values of l, one comma between two of them
RECURSIVE Join(_)
Join(l) ==
    IF l = << >> THEN << >>
    ELSE IF Len(l) = 1 THEN l[1]
    ELSE l[1] \o << "," >> \o Join(Tail(l))

\* the -label-value flags given: the lists of up to MaxValues values, and
\* every string of up to MaxFlagLen characters
PlainFlags == {Join(l) : l \in SeqsUpTo(ValueChars, MaxValues)}

LabelValueFlags == PlainFlags \cup SeqsUpTo(Alphabet, MaxFlagLen)

NoFault == [kind |-> "none", at |-> 0, n |-> 0]

\* one failing call of a collaborator per execution:
\*   openIndex       openIndexReader fails
\*   chunkReader     the chunk reader of an s3:// block cannot be created
\*   externalLabels  the external labels JSON does not decode
\*   metricPostings  indexr.Postings of the metric name fails
\*   postings        indexr.Postings of the at-th value fails
\*   postingsErr     postings.Err() of the at-th value is non-nil once exhausted
\*   series          indexr.Series(at) fails
\*   chunk           chunkr.Chunk(at) fails
\*   iter            the iterator of chunk at yields n samples, then Err() is non-nil
\*   write           wr.Write of chunk at fails
\*   encode          enc.Encode of series at fails
QueryFaults ==
    {NoFault, [kind |-> "metricPostings", at |-> 0, n |-> 0],
     [kind |-> "openIndex", at |-> 0, n |-> 0]}
    \cup {[kind |-> k, at |-> i, n |-> 0] :
             k \in {"postings", "postingsErr"}, i \in 1..MaxValues}
    \cup {[kind |-> "series", at |-> r, n |-> 0] : r \in SeriesRefs}

RunFaults ==
    {[kind |-> k, at |-> 0, n |-> 0] : k \in {"externalLabels", "chunkReader"}}
    \cup {[kind |-> k, at |-> c, n |-> 0] : k \in {"chunk", "write"}, c \in ChunkRefs}
    \cup {f \in [kind : {"iter"}, at : ChunkRefs, n : 0..1] :
             f.n <= Len(BlockChunks[f.at])}

DumpFaults == {[kind |-> "encode", at |-> r, n |-> 0] : r \in SeriesRefs}

Init ==
    /\ mode \in Modes
    /\ labelKey \in LabelKeys
    /\ labelValue \in LabelValueFlags
    /\ labelValues = << >>
    /\ metricName \in MetricNames
    /\ \E w \in Windows :
          /\ minTimestamp = w[1]
          /\ maxTimestamp = w[2]
          /\ mode = "dumpIndex" => w = <<0, 9>>
    /\ fault \in QueryFaults \cup (IF mode = "run" THEN RunFaults ELSE DumpFaults)
    /\ lib \in (IF metricName = "" THEN {"nary"} ELSE {"nary", "pair"})
    /\ externalLabelsMap \in (IF mode = "run" THEN ExternalMaps ELSE { {} })
    /\ outFormat \in (IF mode = "run" /\ fault = NoFault /\ externalLabelsMap = {}
                      THEN OutFormats
                      ELSE {"victoriametrics"})
    /\ labelValue \notin PlainFlags
          => /\ fault.kind \in {"none", "metricPostings"}
             /\ minTimestamp = 0 /\ maxTimestamp = 9
             /\ lib = "nary"
             /\ externalLabelsMap = {}
             /\ outFormat = "victoriametrics"
    /\ externalLabels = << >>
    /\ wr = NilWriter
    /\ pc = "main"
    /\ lk = labelKey
    /\ lvs = labelValues
    /\ metricPostings = NoPostings
    /\ vi = 0
    /\ postings = NoPostings
    /\ ref = 0
    /\ chks = << >>
    /\ ci = 0
    /\ err = NilErr
    /\ ret = NilErr
    /\ emitted = << >>
    /\ sink = << >>
    /\ CodecIdle
    /\ SliceIdle
    /\ RefIdle

-----------------------------------------------------------------------------
(* run and runDumpIndex, one action per step of their loops *)

Return(e) ==
    /\ pc' = "done"
    /\ ret' = e

\* the orders "for k, v := range externalLabelsMap" can visit the map in
Orderings(S) ==
    { q \in [1..Cardinality(S) -> S] :
        \A i, j \in 1..Cardinality(S) : q[i] = q[j] => i = j }

\* main: "labelValues := parseLabelValues(*labelValue)", then the call of run
\* or of runDumpIndex with that list
ParseLabelValues ==
    /\ pc = "main"
    /\ labelValues' = parseLabelValues(labelValue)
    /\ lvs' = labelValues'
    /\ pc' = IF mode = "run" THEN "decode" ELSE "start"
    /\ UNCHANGED << mode, labelKey, labelValue, metricName, minTimestamp,
                    maxTimestamp, fault, lib, externalLabelsMap, outFormat,
                    codecVars, sliceVars, refVars, externalLabels, wr, lk,
                    metricPostings, vi, postings, ref, chks, ci, err, ret,
                    emitted, sink >>

\* run: the external labels JSON does not decode
DecodeFail ==
    /\ pc = "decode"
    /\ fault.kind = "externalLabels"
    /\ Return(Wrap("invalid JSON", "decode external labels"))
    /\ UNCHANGED << inputs, externalLabels, wr, lk, lvs, metricPostings, vi,
                    postings, ref, chks, ci, err, emitted, sink >>

\* openIndexReader fails: run wraps the error, runDumpIndex returns it as it is
OpenIndexFail ==
    /\ pc = "start"
    /\ fault.kind = "openIndex"
    /\ Return(IF mode = "run"
              THEN Wrap("no index", "open index")
              ELSE "no index")
    /\ UNCHANGED << inputs, externalLabels, wr, lk, lvs, metricPostings, vi,
                    postings, ref, chks, ci, err, emitted, sink >>

\* run: parseS3Path or newAWSSession fails for the chunk reader
NewChunkReaderFail ==
    /\ pc = "start"
    /\ mode = "run"
    /\ fault.kind = "chunkReader"
    /\ Return(Wrap("no session", "new aws session"))
    /\ UNCHANGED << inputs, externalLabels, wr, lk, lvs, metricPostings, vi,
                    postings, ref, chks, ci, err, emitted, sink >>

\* run: the decoded external labels become a label list, in the order the
\* iteration over the map takes; then "wr, err := writer.NewWriter(...)", whose
\* err is overwritten by the next statement without having been looked at
DecodeExternalLabels ==
    /\ pc = "decode"
    /\ fault.kind # "externalLabels"
    /\ externalLabels' \in Orderings(externalLabelsMap)
    /\ wr' = NewWriter(outFormat).wr
    /\ pc' = "start"
    /\ UNCHANGED << inputs, lk, lvs, metricPostings, vi, postings, ref, chks,
                    ci, err, ret, emitted, sink >>

\* Begin that substitutes the key and keeps the labelValues of the caller
BeginKeepValues ==
    /\ pc = "start"
    /\ fault.kind \notin {"openIndex", "chunkReader"}
    /\ IF lk = ""
       THEN /\ lk' = AllPostingsKey.key
            /\ UNCHANGED lvs
       ELSE UNCHANGED << lk, lvs >>
    /\ pc' = "metric"
    /\ UNCHANGED << inputs, externalLabels, wr, metricPostings, vi, postings, ref, chks, ci, err,
                    ret, emitted, sink >>

\* the fallback "if labelKey == ''" of both functions
Begin ==
    /\ pc = "start"
    /\ fault.kind \notin {"openIndex", "chunkReader"}
    /\ IF lk = ""
       THEN /\ lk' = AllPostingsKey.key
            /\ lvs' = <<AllPostingsKey.value>>
       ELSE UNCHANGED << lk, lvs >>
    /\ pc' = "metric"
    /\ UNCHANGED << inputs, externalLabels, wr, metricPostings, vi, postings, ref, chks, ci, err,
                    ret, emitted, sink >>

\* "if metricName != ''": the restriction set is resolved once
ResolveMetric ==
    /\ pc = "metric"
    /\ fault.kind # "metricPostings" \/ metricName = ""
    /\ metricPostings' = IF metricName # ""
                         THEN ReaderPostings(MetricNameLabel, metricName)
                         ELSE metricPostings
    /\ vi' = 1
    /\ pc' = "value"
    /\ UNCHANGED << inputs, externalLabels, wr, lk, lvs, postings, ref, chks, ci, err, ret,
                    emitted, sink >>

ResolveMetricFail ==
    /\ pc = "metric"
    /\ metricName # ""
    /\ fault.kind = "metricPostings"
    /\ Return(Wrap("lookup failed", "indexr.Postings metric"))
    /\ UNCHANGED << inputs, externalLabels, wr, lk, lvs, metricPostings, vi, postings, ref, chks,
                    ci, err, emitted, sink >>

\* NextValue that looks up the first value on every round
NextValueFirst ==
    /\ pc = "value"
    /\ vi <= Len(lvs)
    /\ ~(fault.kind = "postings" /\ fault.at = vi)
    /\ LET p == ReaderPostings(lk, lvs[1])
       IN postings' = IF metricPostings.kind # "nil"
                      THEN Intersect(p, metricPostings)
                      ELSE p
    /\ pc' = "series"
    /\ UNCHANGED << inputs, externalLabels, wr, lk, lvs, metricPostings, vi, ref, chks, ci, err,
                    ret, emitted, sink >>

\* "for _, val := range labelValues": lookup and intersection of one value
NextValue ==
    /\ pc = "value"
    /\ vi <= Len(lvs)
    /\ ~(fault.kind = "postings" /\ fault.at = vi)
    /\ LET p == ReaderPostings(lk, lvs[vi])
       IN postings' = IF metricPostings.kind # "nil"
                      THEN Intersect(p, metricPostings)
                      ELSE p
    /\ pc' = "series"
    /\ UNCHANGED << inputs, externalLabels, wr, lk, lvs, metricPostings, vi, ref, chks, ci, err,
                    ret, emitted, sink >>

\* LookupFail that drops the error and goes on with the next value
LookupFailSkip ==
    /\ pc = "value"
    /\ vi <= Len(lvs)
    /\ fault.kind = "postings" /\ fault.at = vi
    /\ vi' = vi + 1
    /\ UNCHANGED << inputs, externalLabels, wr, pc, lk, lvs, metricPostings, postings, ref, chks,
                    ci, err, ret, emitted, sink >>

\* indexr.Postings(labelKey, val) fails
LookupFail ==
    /\ pc = "value"
    /\ vi <= Len(lvs)
    /\ fault.kind = "postings" /\ fault.at = vi
    /\ Return(Wrap("lookup failed", "indexr.Postings"))
    /\ UNCHANGED << inputs, externalLabels, wr, lk, lvs, metricPostings, vi, postings, ref, chks,
                    ci, err, emitted, sink >>

\* the range loop is over: "return nil"
Finish ==
    /\ pc = "value"
    /\ vi > Len(lvs)
    /\ Return(NilErr)
    /\ UNCHANGED << inputs, externalLabels, wr, lk, lvs, metricPostings, vi, postings, ref, chks,
                    ci, err, emitted, sink >>

\* postings.Next() is true and indexr.Series succeeds (run)
NextSeries ==
    /\ pc = "series"
    /\ mode = "run"
    /\ LET nx == PostingsNext(postings, metricPostings, lib)
       IN /\ nx.ok
          /\ ~(fault.kind = "series" /\ fault.at = nx.p.cur)
          /\ postings' = nx.p
          /\ metricPostings' = nx.m
          /\ ref' = nx.p.cur
          /\ chks' = BlockSeries[nx.p.cur].chks
          /\ emitted' = Append(emitted, [vi |-> vi, ref |-> nx.p.cur])
    /\ ci' = 1
    /\ pc' = "chunk"
    /\ UNCHANGED << inputs, externalLabels, wr, lk, lvs, vi, err, ret, sink >>

\* postings.Next() is true and indexr.Series fails (both functions)
SeriesFail ==
    /\ pc = "series"
    /\ LET nx == PostingsNext(postings, metricPostings, lib)
       IN /\ nx.ok
          /\ fault.kind = "series" /\ fault.at = nx.p.cur
          /\ postings' = nx.p
          /\ metricPostings' = nx.m
          /\ ref' = nx.p.cur
    /\ Return(Wrap("series failed", "indexr.Series"))
    /\ UNCHANGED << inputs, externalLabels, wr, lk, lvs, vi, chks, ci, err, emitted, sink >>

\* postings.Next() is false and postings.Err() is nil: on to the next value
PostingsDone ==
    /\ pc = "series"
    /\ LET nx == PostingsNext(postings, metricPostings, lib)
       IN /\ ~nx.ok
          /\ postings' = nx.p
          /\ metricPostings' = nx.m
    /\ ~(fault.kind = "postingsErr" /\ fault.at = vi)
    /\ vi' = vi + 1
    /\ pc' = "value"
    /\ UNCHANGED << inputs, externalLabels, wr, lk, lvs, ref, chks, ci, err, ret, emitted, sink >>

\* postings.Next() is false and postings.Err() is non-nil
PostingsErr ==
    /\ pc = "series"
    /\ LET nx == PostingsNext(postings, metricPostings, lib)
       IN /\ ~nx.ok
          /\ postings' = nx.p
          /\ metricPostings' = nx.m
    /\ fault.kind = "postingsErr" /\ fault.at = vi
    /\ Return(Wrap("postings failed", "postings.Err"))
    /\ UNCHANGED << inputs, externalLabels, wr, lk, lvs, vi, ref, chks, ci, err, emitted, sink >>

\* what the sample iterator of chunk c yields before Next() returns false
Yielded(c) ==
    IF fault.kind = "iter" /\ fault.at = c
    THEN SubSeq(BlockChunks[c], 1, fault.n)
    ELSE BlockChunks[c]

\* VictoriaMetricsWriter.Write: the line handed to the JSON encoder
VictoriaMetricsLine(lset, timestamps, values) ==
    [metric |-> LabelsMap(lset), values |-> values, timestamps |-> timestamps]

\* a call of wr.Write as the sink sees it
\* an lset that leaves out the external labels the series has a label for
LsetDeduplicated(r) ==
    LET own == BlockSeries[r].lset
    IN own \o SelectSeq(externalLabels,
                        LAMBDA l : \A i \in 1..Len(own) : own[i][1] # l[1])

\* the lset of run after indexr.Series and
\* "if len(externalLabels) > 0 { lset = append(lset, externalLabels...) }"
Lset(r) ==
    IF Len(externalLabels) > 0
    THEN BlockSeries[r].lset \o externalLabels
    ELSE BlockSeries[r].lset

WriteCall(c, kept, ok) ==
    [op |-> "write", ok |-> ok, vi |-> vi, ei |-> Len(emitted), ref |-> ref,
     ci |-> ci, chunk |-> c, labels |-> Lset(ref),
     metas |-> << >>, timestamps |-> Timestamps(kept), values |-> Values(kept),
     line |-> VictoriaMetricsLine(Lset(ref), Timestamps(kept), Values(kept))]

\* a call of enc.Encode as the output sees it
EncodeCall(r, ok) ==
    [op |-> "line", ok |-> ok, vi |-> vi, ei |-> Len(emitted) + 1, ref |-> r,
     ci |-> 0, chunk |-> 0, labels |-> LabelsMap(BlockSeries[r].lset),
     metas |-> BlockSeries[r].chks, timestamps |-> << >>, values |-> << >>]

\* "for _, meta := range chks" is over: back to postings.Next()
ChunksDone ==
    /\ pc = "chunk"
    /\ ci > Len(chks)
    /\ pc' = "series"
    /\ UNCHANGED << inputs, externalLabels, wr, lk, lvs, metricPostings, vi, postings, ref, chks,
                    ci, err, ret, emitted, sink >>

\* chunkr.Chunk(meta.Ref) fails
ChunkFail ==
    /\ pc = "chunk"
    /\ ci <= Len(chks)
    /\ fault.kind = "chunk" /\ fault.at = chks[ci]
    /\ err' = "chunk failed"
    /\ Return(Wrap(err', "chunkr.Chunk"))
    /\ UNCHANGED << inputs, externalLabels, wr, lk, lvs, metricPostings, vi, postings, ref, chks,
                    ci, emitted, sink >>

\* IterErr that hands the samples read so far to the sink before it returns
IterErrFlush ==
    /\ pc = "chunk"
    /\ ci <= Len(chks)
    /\ fault.kind = "iter" /\ fault.at = chks[ci]
    /\ LET kept == FilterSamples(Yielded(chks[ci]), minTimestamp, maxTimestamp)
       IN sink' = IF Len(kept) # 0
                  THEN Append(sink, WriteCall(chks[ci], kept, TRUE))
                  ELSE sink
    /\ err' = NilErr
    /\ Return(Wrap(err', "iterator.Err"))
    /\ UNCHANGED << inputs, externalLabels, wr, lk, lvs, metricPostings, vi, postings, ref, chks,
                    ci, emitted >>

\* the chunk is fetched (err is nil) and its iterator ends with an error:
\* "return pkgerrors.Wrap(err, 'iterator.Err')" wraps the err of chunkr.Chunk
IterErr ==
    /\ pc = "chunk"
    /\ ci <= Len(chks)
    /\ fault.kind = "iter" /\ fault.at = chks[ci]
    /\ err' = NilErr
    /\ Return(Wrap(err', "iterator.Err"))
    /\ UNCHANGED << inputs, externalLabels, wr, lk, lvs, metricPostings, vi, postings, ref, chks,
                    ci, emitted, sink >>

\* no sample of the chunk passes the filter: "continue"
SkipEmpty ==
    /\ pc = "chunk"
    /\ ci <= Len(chks)
    /\ fault.kind \notin {"chunk", "iter"} \/ fault.at # chks[ci]
    /\ Len(FilterSamples(Yielded(chks[ci]), minTimestamp, maxTimestamp)) = 0
    /\ err' = NilErr
    /\ ci' = ci + 1
    /\ UNCHANGED << inputs, externalLabels, wr, pc, lk, lvs, metricPostings, vi, postings, ref,
                    chks, ret, emitted, sink >>

\* WriteChunk without the "len(timestamps) == 0" test before it
WriteChunkAlways ==
    /\ pc = "chunk"
    /\ ci <= Len(chks)
    /\ wr # NilWriter
    /\ fault.kind \notin {"chunk", "iter", "write"} \/ fault.at # chks[ci]
    /\ LET kept == FilterSamples(Yielded(chks[ci]), minTimestamp, maxTimestamp)
       IN sink' = Append(sink, WriteCall(chks[ci], kept, TRUE))
    /\ err' = NilErr
    /\ ci' = ci + 1
    /\ UNCHANGED << inputs, externalLabels, wr, pc, lk, lvs, metricPostings, vi, postings, ref,
                    chks, ret, emitted >>

\* the filtered samples of the chunk are handed to wr.Write
WriteChunk ==
    /\ pc = "chunk"
    /\ ci <= Len(chks)
    /\ wr # NilWriter
    /\ fault.kind \notin {"chunk", "iter", "write"} \/ fault.at # chks[ci]
    /\ LET kept == FilterSamples(Yielded(chks[ci]), minTimestamp, maxTimestamp)
       IN /\ Len(kept) # 0
          /\ sink' = Append(sink, WriteCall(chks[ci], kept, TRUE))
    /\ err' = NilErr
    /\ ci' = ci + 1
    /\ UNCHANGED << inputs, externalLabels, wr, pc, lk, lvs, metricPostings, vi, postings, ref,
                    chks, ret, emitted >>

\* wr.Write on the nil Writer: a nil dereference, run ends in a panic
WriteNil ==
    /\ pc = "chunk"
    /\ ci <= Len(chks)
    /\ wr = NilWriter
    /\ fault.kind \notin {"chunk", "iter"} \/ fault.at # chks[ci]
    /\ Len(FilterSamples(Yielded(chks[ci]), minTimestamp, maxTimestamp)) # 0
    /\ err' = NilErr
    /\ pc' = "panicked"
    /\ UNCHANGED << inputs, externalLabels, wr, lk, lvs, metricPostings, vi,
                    postings, ref, chks, ci, ret, emitted, sink >>

\* wr.Write fails
WriteFail ==
    /\ pc = "chunk"
    /\ ci <= Len(chks)
    /\ wr # NilWriter
    /\ fault.kind = "write" /\ fault.at = chks[ci]
    /\ LET kept == FilterSamples(Yielded(chks[ci]), minTimestamp, maxTimestamp)
       IN /\ Len(kept) # 0
          /\ sink' = Append(sink, WriteCall(chks[ci], kept, FALSE))
    /\ err' = NilErr
    /\ Return(Wrap("write failed", "Writer.Write"))
    /\ UNCHANGED << inputs, externalLabels, wr, lk, lvs, metricPostings, vi, postings, ref, chks,
                    ci, emitted >>

\* runDumpIndex: postings.Next() is true, indexr.Series succeeds and the line
\* of the series is encoded
DumpSeries ==
    /\ pc = "series"
    /\ mode = "dumpIndex"
    /\ LET nx == PostingsNext(postings, metricPostings, lib)
       IN /\ nx.ok
          /\ fault.kind \notin {"series", "encode"} \/ fault.at # nx.p.cur
          /\ postings' = nx.p
          /\ metricPostings' = nx.m
          /\ ref' = nx.p.cur
          /\ chks' = BlockSeries[nx.p.cur].chks
          /\ emitted' = Append(emitted, [vi |-> vi, ref |-> nx.p.cur])
          /\ sink' = Append(sink, EncodeCall(nx.p.cur, TRUE))
    /\ UNCHANGED << inputs, externalLabels, wr, pc, lk, lvs, vi, ci, err, ret >>

\* runDumpIndex: enc.Encode fails
DumpEncodeFail ==
    /\ pc = "series"
    /\ mode = "dumpIndex"
    /\ LET nx == PostingsNext(postings, metricPostings, lib)
       IN /\ nx.ok
          /\ fault.kind = "encode" /\ fault.at = nx.p.cur
          /\ postings' = nx.p
          /\ metricPostings' = nx.m
          /\ ref' = nx.p.cur
          /\ chks' = BlockSeries[nx.p.cur].chks
          /\ emitted' = Append(emitted, [vi |-> vi, ref |-> nx.p.cur])
          /\ sink' = Append(sink, EncodeCall(nx.p.cur, FALSE))
    /\ Return(Wrap("encode failed", "encode"))
    /\ UNCHANGED << inputs, externalLabels, wr, lk, lvs, vi, ci, err >>

Next ==
    \/ ParseLabelValues
    \/ DecodeFail
    \/ DecodeExternalLabels
    \/ OpenIndexFail
    \/ NewChunkReaderFail
    \/ Begin
    \/ ResolveMetric
    \/ ResolveMetricFail
    \/ NextValue
    \/ LookupFail
    \/ Finish
    \/ NextSeries
    \/ SeriesFail
    \/ PostingsDone
    \/ PostingsErr
    \/ ChunksDone
    \/ ChunkFail
    \/ IterErr
    \/ SkipEmpty
    \/ WriteChunk
    \/ WriteNil
    \/ WriteFail
    \/ DumpSeries
    \/ DumpEncodeFail

Spec == Init /\ [][Next]_vars

-----------------------------------------------------------------------------
(* Type invariant of the query machine *)

TypeOK ==
    /\ pc \in {"main", "decode", "start", "metric", "value", "series", "chunk", "done",
             "panicked"}
    /\ vi \in 0..(Len(lvs) + 1)
    /\ ci \in 0..(Len(chks) + 1)

-----------------------------------------------------------------------------
(* Bytes, CRC-32C and uvarint, as the chunk readers use them *)

Bytes == 0..255

Min(a, b) == IF a <= b THEN a ELSE b

\* bit k (0 = least significant) of byte b
BitOf(b, k) == (b \div (2 ^ k)) % 2

\* a 32-bit word is a pair of 16-bit halves: hi (bits 31..16), lo (bits 15..0)
Word(hi, lo) == [hi |-> hi, lo |-> lo]

\* crc32.Castagnoli = 0x82f63b78: its upper half 0x82f6 and lower half 0x3b78
CastagnoliHi == 33526
CastagnoliLo == 15224

\* bitwise exclusive or of two non-negative integers
RECURSIVE Xor(_, _)
Xor(a, b) ==
    IF a = 0 THEN b
    ELSE IF b = 0 THEN a
    ELSE (((a % 2) + (b % 2)) % 2) + 2 * Xor(a \div 2, b \div 2)

XorWord(v, w) == Word(Xor(v.hi, w.hi), Xor(v.lo, w.lo))

AllOnes == Word(2 ^ 16 - 1, 2 ^ 16 - 1)

ShiftRight(w) == Word(w.hi \div 2, (w.lo \div 2) + (w.hi % 2) * (2 ^ 15))

Words == [hi : 0..(2 ^ 16 - 1), lo : 0..(2 ^ 16 - 1)]

\* one bit of the reflected CRC update: shift, and xor the polynomial in when
\* the bit shifted out is one
CrcShift[w \in Words] ==
    IF w.lo % 2 = 1
    THEN XorWord(ShiftRight(w), Word(CastagnoliHi, CastagnoliLo))
    ELSE ShiftRight(w)

\* the update of the running CRC w with one byte: eight shifts
CrcByte[w \in Words, b \in Bytes] ==
    CrcShift[CrcShift[CrcShift[CrcShift[
        CrcShift[CrcShift[CrcShift[CrcShift[XorWord(w, Word(0, b))]]]]]]]]

\* crc.Write(data): the running CRC over the bytes of data
CrcUpdate[w \in Words, data \in Seq(Bytes)] ==
    IF data = << >> THEN w
    ELSE CrcUpdate[CrcByte[w, Head(data)], Tail(data)]

\* the CRC-32C of data
Crc32c(data) == XorWord(CrcUpdate[AllOnes, data], AllOnes)

\* crc.Sum(nil): the four bytes of the CRC, most significant first
CrcSum(data) ==
    LET w == Crc32c(data)
    IN << w.hi \div 256, w.hi % 256, w.lo \div 256, w.lo % 256 >>

\* lengths from here on are all the same to a reader: no segment is as long
Huge == 2 ^ 28

SatAdd(a, b) == Min(a + b, Huge)

\* uint64(b & 0x7f) << s
Shifted(b, s) ==
    IF s >= 21 THEN (IF b % 128 = 0 THEN 0 ELSE Huge) ELSE (b % 128) * (2 ^ s)

\* binary.Uvarint(buf): the value and the number of bytes read, n = 0 when no
\* byte of buf ends the varint
RECURSIVE UvarintFrom(_, _, _, _)
UvarintFrom(buf, i, x, s) ==
    IF i > Len(buf) THEN [value |-> 0, n |-> 0]
    ELSE IF buf[i] < 128
         THEN [value |-> SatAdd(x, Shifted(buf[i], s)), n |-> i]
         ELSE UvarintFrom(buf, i + 1, SatAdd(x, Shifted(buf[i], s)), s + 7)

\* a Uvarint that takes a buffer without a last varint byte as a varint of
\* the whole buffer
UvarintLenient(buf) ==
    LET uv == UvarintFrom(buf, 1, 0, 0)
    IN IF uv.n = 0 THEN [value |-> 0, n |-> Len(buf)] ELSE uv

Uvarint(buf) == UvarintFrom(buf, 1, 0, 0)

-----------------------------------------------------------------------------
(* The chunk readers *)

\* chunks.MaxChunkLengthFieldSize = binary.MaxVarintLen32
MaxChunkLengthFieldSize == 5

\* chunks.ChunkEncodingSize
ChunkEncodingSize == 1

\* crc32.Size
CrcSize == 4

\* chunkenc.EncXOR, the one encoding chunkenc.FromData knows
EncXOR == 1

\* data[from:to] of Go, on the 1-based sequence data
Slice(data, from, to) == SubSeq(data, from + 1, to)

ChunkError(msg, reads) ==
    [ok |-> FALSE, err |-> msg, enc |-> 0, payload |-> << >>, reads |-> reads]

\* a FromData that hands back a chunk without the bytes it was given
FromDataEmpty(enc, payload, reads) ==
    IF enc = EncXOR
    THEN [ok |-> TRUE, err |-> NilErr, enc |-> enc, payload |-> << >>,
          reads |-> reads]
    ELSE ChunkError("unknown chunk encoding", reads)

\* chunkenc.FromData(enc, payload)
FromData(enc, payload, reads) ==
    IF enc = EncXOR
    THEN [ok |-> TRUE, err |-> NilErr, enc |-> enc, payload |-> payload,
          reads |-> reads]
    ELSE ChunkError("unknown chunk encoding", reads)

\* the comparison without the checksum being looked at
ChecksumUnchecked(data, n, chkDataEnd) == TRUE

\* "bytes.Equal(crc.Sum(nil), sum)" with the CRC written over
\* data[n:chkDataEnd] and sum = data[chkDataEnd:chkDataEnd+4]
ChecksumOk(data, n, chkDataEnd) ==
    CrcSum(Slice(data, n, chkDataEnd)) = Slice(data, chkDataEnd, chkDataEnd + CrcSize)

\* f.ReadAt(buf, off) on the file seg with len(buf) = count: the bytes, or an
\* error when the file holds fewer than count bytes from off on
ReadAt(seg, off, count) ==
    IF off + count <= Len(seg)
    THEN [ok |-> TRUE, data |-> Slice(seg, off, off + count)]
    ELSE [ok |-> FALSE, data |-> << >>]

\* a ranged GET "bytes=first-last" of the object seg through the downloader:
\* the bytes of the range the object holds, or an error when it holds none
Download(seg, first, last) ==
    IF first >= Len(seg)
    THEN [ok |-> FALSE, data |-> << >>]
    ELSE [ok |-> TRUE, data |-> Slice(seg, first, Min(last + 1, Len(seg)))]

\* a total that takes in one byte after the checksum
TotalOneMore(n, chkDataLen) ==
    SatAdd(n + ChunkEncodingSize + CrcSize + 1, chkDataLen)

\* total := n + chunks.ChunkEncodingSize + int(chkDataLen) + crc32.Size
Total(n, chkDataLen) == SatAdd(n + ChunkEncodingSize + CrcSize, chkDataLen)

\* LocalChunkReader.Chunk on the segment file seg at offset off
LocalChunk(seg, off) ==
    LET hd == ReadAt(seg, off, MaxChunkLengthFieldSize)
        r1 == << <<off, MaxChunkLengthFieldSize>> >>
    IN IF ~hd.ok THEN ChunkError("read header", r1)
       ELSE LET uv == Uvarint(hd.data)
                n == uv.n
                total == Total(n, uv.value)
                body == ReadAt(seg, off, total)
                r2 == Append(r1, <<off, total>>)
                chkDataStart == n + ChunkEncodingSize
                chkDataEnd == chkDataStart + uv.value
            IN IF n <= 0 THEN ChunkError("invalid header", r1)
               ELSE IF ~body.ok THEN ChunkError("read chunk", r2)
               ELSE IF ~ChecksumOk(body.data, n, chkDataEnd)
                    THEN ChunkError("checksum mismatch", r2)
               ELSE FromData(body.data[n + 1],
                             Slice(body.data, chkDataStart, chkDataEnd), r2)

\* S3ChunkReader.Chunk on the segment object seg at offset off
S3Chunk(seg, off) ==
    LET last1 == off + MaxChunkLengthFieldSize + ChunkEncodingSize - 1
        hd == Download(seg, off, last1)
        r1 == << <<off, last1>> >>
    IN IF ~hd.ok THEN ChunkError("download header", r1)
       ELSE IF Len(hd.data) < MaxChunkLengthFieldSize
            THEN ChunkError("short header", r1)
       ELSE LET uv == Uvarint(hd.data)
                n == uv.n
                total == Total(n, uv.value)
                body == Download(seg, off, off + total - 1)
                r2 == Append(r1, <<off, off + total - 1>>)
                chkDataStart == n + ChunkEncodingSize
                chkDataEnd == chkDataStart + uv.value
                crcEnd == chkDataEnd + CrcSize
            IN IF n <= 0 THEN ChunkError("invalid header", r1)
               ELSE IF ~body.ok THEN ChunkError("download chunk", r2)
               ELSE IF Len(body.data) < total
                    THEN ChunkError("short chunk data", r2)
               ELSE IF crcEnd > Len(body.data)
                    THEN ChunkError("invalid chunk length", r2)
               ELSE IF ~ChecksumOk(body.data, n, chkDataEnd)
                    THEN ChunkError("checksum mismatch", r2)
               ELSE FromData(body.data[n + 1],
                             Slice(body.data, chkDataStart, chkDataEnd), r2)

-----------------------------------------------------------------------------
(* A stored chunk record, its corruption and one call of Chunk(ref) *)

\* longest payload of a stored record drawn from PayloadBytes
MaxPayload == 2

PayloadBytes == {0, 1, 255}

\* EncNone, EncXOR and an encoding byte no version of chunkenc knows
Encodings == {0, 1, 255}


\* binary.PutUvarint
RECURSIVE PutUvarint(_)
PutUvarint(x) ==
    IF x < 128 THEN <<x>> ELSE <<128 + (x % 128)>> \o PutUvarint(x \div 128)

\* the record as the block writer stores it:
\* [uvarint(len(payload))][encoding][payload][CRC-32C of encoding + payload]
EncodeRecord(enc, payload) ==
    PutUvarint(Len(payload)) \o <<enc>> \o payload \o CrcSum(<<enc>> \o payload)

\* what the segment holds before the record (a segment header) and after it:
\* nothing, the start of a further record, bytes none of which (or only the
\* sixth of which) ends a varint, and a record behind five bytes that end no
\* varint
Leads == { << >>, <<133, 189>> }
Trails == { << >>, <<1, 1, 0>>, <<128, 128, 128, 128, 128, 128>>,
            <<255, 255, 255, 255, 255, 1>>,
            <<128, 128, 128, 128, 128>> \o EncodeRecord(EncXOR, << >>) }

\* the payloads stored: every short one, and one that is itself the bytes of
\* a whole record
Payloads ==
    SeqsUpTo(PayloadBytes, MaxPayload) \cup { EncodeRecord(EncXOR, << >>) }

\* byte b with its bit k (0 = least significant) flipped
FlipByte(b, k) ==
    IF (b \div (2 ^ k)) % 2 = 1 THEN b - 2 ^ k ELSE b + 2 ^ k

\* seg with bit k of its byte at (0-based) position pos flipped
FlipAt(seg, pos, k) == [seg EXCEPT ![pos + 1] = FlipByte(seg[pos + 1], k)]

\* the number of bytes the stored record occupies
RecordLen == Len(EncodeRecord(stored.enc, stored.payload))

\* the position in the segment of the first payload byte of the stored record
PayloadStart ==
    stored.at + Len(PutUvarint(Len(stored.payload))) + ChunkEncodingSize

NoResult == [ok |-> FALSE, err |-> "not called", enc |-> 0, payload |-> << >>,
             reads |-> << >>]

\* a segment holding one record at stored.at, and the offset of the reference
\* Chunk is called with: the record's start, any other position of the
\* segment, its end or one past it
InitCodec ==
    /\ QueryIdle
    /\ SliceIdle
    /\ RefIdle
    /\ \E enc \in Encodings, payload \in Payloads,
          lead \in Leads, trail \in Trails :
          /\ stored = [enc |-> enc, payload |-> payload, at |-> Len(lead)]
          /\ segment = lead \o EncodeRecord(enc, payload) \o trail
    /\ offset \in 0..(Len(segment) + 1)
    /\ flip = -1
    /\ cut = -1
    /\ cpc = "stored"
    /\ result = NoResult

\* one bit of the payload or of the trailing checksum of the stored record
\* flips in storage
FlipBit ==
    /\ cpc = "stored"
    /\ offset = stored.at
    /\ \E k \in 0..(8 * (Len(stored.payload) + CrcSize) - 1) :
          /\ flip' = k
          /\ segment' = FlipAt(segment, PayloadStart + (k \div 8), k % 8)
    /\ cpc' = "corrupt"
    /\ UNCHANGED << queryVars, sliceVars, refVars, offset, stored, cut, result >>

\* the segment is cut short inside the stored record: cut' of the record's
\* bytes are left, and nothing after them
Truncate ==
    /\ cpc = "stored"
    /\ offset = stored.at
    /\ \E m \in 0..(RecordLen - 1) :
          /\ cut' = m
          /\ segment' = SubSeq(segment, 1, stored.at + m)
    /\ cpc' = "corrupt"
    /\ UNCHANGED << queryVars, sliceVars, refVars, offset, stored, flip, result >>

\* LocalChunkReader.Chunk(ref) with ref = (segment, offset)
ChunkLocal ==
    /\ cpc \in {"stored", "corrupt"}
    /\ result' = LocalChunk(segment, offset)
    /\ cpc' = "local"
    /\ UNCHANGED << queryVars, sliceVars, refVars, segment, offset, stored, flip, cut >>

\* S3ChunkReader.Chunk(ref) with ref = (segment, offset)
ChunkS3 ==
    /\ cpc \in {"stored", "corrupt"}
    /\ result' = S3Chunk(segment, offset)
    /\ cpc' = "s3"
    /\ UNCHANGED << queryVars, sliceVars, refVars, segment, offset, stored, flip, cut >>

NextCodec ==
    \/ FlipBit
    \/ Truncate
    \/ ChunkLocal
    \/ ChunkS3

SpecCodec == InitCodec /\ [][NextCodec]_vars

-----------------------------------------------------------------------------
(* s3ByteSlice: the lazy ranged reads of the index object *)

\* longest index object
MaxObject == 2

\* most calls of Range in one dump
MaxRanges == 2

\* most calls of Chunk in one dump
MaxChunks == 1

ObjectBytes == {0, 1}

\* the backends behind s3API: the test double of s3index_test.go, and an HTTP
\* byte-range server, which either ignores a range whose last byte position
\* is below its first (and sends the whole object) or rejects it
Backends == {"mock", "ignore", "reject"}

\* what becomes of one request: the backend answers it, the transport fails,
\* or no answer ever comes
Nets == {"answer", "error", "hang"}

\* context.DeadlineExceeded, and any other error of a request
DeadlineExceeded == "context deadline exceeded"
TransportError == "transport error"

\* a request as the backend receives it; deadline tells whether the context it
\* was made under has one
Request(op, key, first, last, deadline) ==
    [op |-> op, key |-> key, first |-> first, last |-> last,
     deadline |-> deadline]

NoCall == [called |-> FALSE, op |-> "none", start |-> 0, end |-> 0,
           net |-> "none", panicked |-> FALSE, err |-> NilErr, data |-> << >>]

NoCalls == [range |-> 0, chunk |-> 0]

\* the error run returns: its cause and the messages it was wrapped with
NoOpErr == [cause |-> NilErr, wraps |-> << >>]

\* cli.GetObject with the header fmt.Sprintf("bytes=%d-%d", first, last)
GetObject(obj, first, last, kind) ==
    CASE kind = "mock" ->
            [ok |-> TRUE, body |-> Slice(obj, first, last + 1)]
      [] kind \in {"ignore", "reject"} /\ last < first ->
            IF kind = "ignore"
            THEN [ok |-> TRUE, body |-> obj]
            ELSE [ok |-> FALSE, body |-> << >>]
      [] kind \in {"ignore", "reject"} /\ last >= first ->
            IF first >= Len(obj)
            THEN [ok |-> FALSE, body |-> << >>]
            ELSE [ok |-> TRUE, body |-> Slice(obj, first, Min(last + 1, Len(obj)))]

\* the chunk segment object the remote chunk reader fetches from
ChunkObject == EncodeRecord(EncXOR, <<1>>)

InitSlice ==
    /\ QueryIdle
    /\ CodecIdle
    /\ RefIdle
    /\ object \in SeqsUpTo(ObjectBytes, MaxObject)
    /\ backend \in Backends
    /\ size = 0
    /\ rpc = "new"
    /\ requests = << >>
    /\ got = NoCall
    /\ calls = NoCalls
    /\ opErr = NoOpErr

\* NewS3ByteSlice as openIndexReader calls it and run its caller: one HEAD
\* request under the deadline gives the size; a failure ends run with the
\* error, wrapped unless it is a deadline or cancellation
NewS3ByteSlice ==
    /\ rpc = "new"
    /\ requests' = Append(requests, Request("HEAD", "index", 0, 0, TRUE))
    /\ \E net \in Nets, hasLength \in BOOLEAN :
          CASE net = "answer" /\ hasLength ->
                  /\ got' = [NoCall EXCEPT !.called = TRUE, !.op = "New",
                                            !.net = "answer"]
                  /\ size' = Len(object)
                  /\ rpc' = "ready"
                  /\ opErr' = opErr
            [] net = "answer" /\ ~hasLength ->
                  /\ got' = [NoCall EXCEPT !.called = TRUE, !.op = "New",
                                            !.net = "no length",
                                            !.err = "content length missing"]
                  /\ size' = size
                  /\ rpc' = "failed"
                  /\ opErr' = [cause |-> "content length missing",
                               wraps |-> <<"open index", "prepare index slice">>]
            [] net = "error" ->
                  /\ got' = [NoCall EXCEPT !.called = TRUE, !.op = "New",
                                            !.net = "error",
                                            !.err = TransportError]
                  /\ size' = size
                  /\ rpc' = "failed"
                  /\ opErr' = [cause |-> TransportError,
                               wraps |-> <<"open index", "prepare index slice">>]
            [] net = "hang" ->
                  /\ got' = [NoCall EXCEPT !.called = TRUE, !.op = "New",
                                            !.net = "hang",
                                            !.err = DeadlineExceeded]
                  /\ size' = size
                  /\ rpc' = "failed"
                  /\ opErr' = [cause |-> DeadlineExceeded,
                               wraps |-> <<"open index">>]
    /\ UNCHANGED << queryVars, codecVars, refVars, object, backend, calls >>

\* a Len() that asks the backend for the size again
SliceLenProbe ==
    /\ rpc = "ready"
    /\ got' = [NoCall EXCEPT !.called = TRUE, !.op = "Len", !.end = size]
    /\ requests' = Append(requests, Request("HEAD", "index", 0, 0, TRUE))
    /\ UNCHANGED << queryVars, codecVars, refVars, object, backend, size, rpc,
                    calls, opErr >>

\* s3ByteSlice.Len()
SliceLen ==
    /\ rpc = "ready"
    /\ got' = [NoCall EXCEPT !.called = TRUE, !.op = "Len", !.end = size]
    /\ UNCHANGED << queryVars, codecVars, refVars, object, backend, size, rpc,
                    requests, calls, opErr >>

\* s3ByteSlice.Range(start, end) with 0 <= start <= end <= Len(): one GET
\* under the deadline; every error is a panic, in the index reader and so in
\* run
Range ==
    /\ rpc = "ready"
    /\ calls.range < MaxRanges
    /\ \E start \in 0..size, end \in 0..size, net \in Nets :
          /\ start <= end
          /\ LET out == GetObject(object, start, end - 1, backend)
                 failure == CASE net = "hang" -> DeadlineExceeded
                              [] net = "error" -> TransportError
                              [] net = "answer" /\ ~out.ok -> TransportError
                              [] OTHER -> NilErr
             IN /\ requests' = Append(requests,
                                  Request("GET", "index", start, end - 1, TRUE))
                /\ got' = [called |-> TRUE, op |-> "Range", start |-> start,
                           end |-> end, net |-> net,
                           panicked |-> failure # NilErr, err |-> failure,
                           data |-> IF failure = NilErr THEN out.body ELSE << >>]
                /\ rpc' = IF failure = NilErr THEN "ready" ELSE "panicked"
    /\ calls' = [calls EXCEPT !.range = @ + 1]
    /\ UNCHANGED << queryVars, codecVars, refVars, object, backend, size, opErr >>

\* the GET of a read <<first, last>> of the remote chunk reader: made with no
\* context (context.Background()), so under no deadline
ChunkGet(read) == Request("GET", "chunks", read[1], read[2], FALSE)

\* S3ChunkReader.Chunk as run calls it: the header fetch and the body fetch;
\* an error of either ends run with it, a fetch never answered never ends
ChunkFetch ==
    /\ rpc = "ready"
    /\ calls.chunk < MaxChunks
    /\ LET res == S3Chunk(ChunkObject, 0)
       IN \E net1 \in Nets, net2 \in Nets :
             CASE net1 = "hang" ->
                     /\ requests' = Append(requests, ChunkGet(res.reads[1]))
                     /\ rpc' = "blocked"
                     /\ opErr' = opErr
               [] net1 = "error" ->
                     /\ requests' = Append(requests, ChunkGet(res.reads[1]))
                     /\ rpc' = "failed"
                     /\ opErr' = [cause |-> TransportError, wraps |-> << >>]
               [] net1 = "answer" /\ net2 = "hang" ->
                     /\ requests' = requests \o <<ChunkGet(res.reads[1]),
                                                   ChunkGet(res.reads[2])>>
                     /\ rpc' = "blocked"
                     /\ opErr' = opErr
               [] net1 = "answer" /\ net2 = "error" ->
                     /\ requests' = requests \o <<ChunkGet(res.reads[1]),
                                                   ChunkGet(res.reads[2])>>
                     /\ rpc' = "failed"
                     /\ opErr' = [cause |-> TransportError, wraps |-> << >>]
               [] net1 = "answer" /\ net2 = "answer" ->
                     /\ requests' = requests \o <<ChunkGet(res.reads[1]),
                                                   ChunkGet(res.reads[2])>>
                     /\ rpc' = IF res.ok THEN "ready" ELSE "failed"
                     /\ opErr' = IF res.ok THEN opErr
                                 ELSE [cause |-> res.err, wraps |-> << >>]
    /\ calls' = [calls EXCEPT !.chunk = @ + 1]
    /\ UNCHANGED << queryVars, codecVars, refVars, object, backend, size, got >>

\* run returns nil
DumpDone ==
    /\ rpc = "ready"
    /\ rpc' = "done"
    /\ UNCHANGED << queryVars, codecVars, refVars, object, backend, size,
                    requests, got, calls, opErr >>

NextSlice ==
    \/ NewS3ByteSlice
    \/ SliceLen
    \/ Range
    \/ ChunkFetch
    \/ DumpDone

SpecSlice == InitSlice /\ [][NextSlice]_vars

\* the dump goes on while it can
FairSpecSlice == SpecSlice /\ WF_vars(NextSlice)

-----------------------------------------------------------------------------
(* The split of a chunk reference into segment and offset *)

\* a uint64 is four 16-bit limbs, most significant first; an int of Go is a
\* sign and a magnitude of two limbs (every int made here is within 32 bits)
Limb == 65536

\* limbs the references are drawn from: 15 * 65536 + 16960 = 1000000
RefLimbs == {0, 1, 15, 16959, 16960, 32768, 65535}

\* the widths int has in the builds of Go
IntWidths == {32, 64}

\* ref >> k and ref << k on uint64, k a multiple of 16
ShiftRight64(x, k) ==
    [i \in 1..4 |-> IF i - (k \div 16) >= 1 THEN x[i - (k \div 16)] ELSE 0]

ShiftLeft64(x, k) ==
    [i \in 1..4 |-> IF i + (k \div 16) <= 4 THEN x[i + (k \div 16)] ELSE 0]

\* int(x) for a uint64 x below 2^32: the same number where int has 64 bits,
\* the two's complement reading of its low 32 bits where int has 32
ToInt(x, bits) ==
    IF bits = 64 \/ x[3] < 32768
    THEN [neg |-> FALSE, mag |-> <<x[3], x[4]>>]
    ELSE [neg |-> TRUE,
          mag |-> IF x[4] = 0 THEN <<Limb - x[3], 0>>
                  ELSE <<Limb - 1 - x[3], Limb - x[4]>>]

\* the decimal digits of the two-limb number m, most significant first
RECURSIVE Decimal(_)
Decimal(m) ==
    LET t == (m[1] % 10) * Limb + m[2]
        q == <<m[1] \div 10, t \div 10>>
    IN IF q = <<0, 0>> THEN <<t % 10>> ELSE Append(Decimal(q), t % 10)

RECURSIVE Zeros(_)
Zeros(k) == IF k <= 0 THEN << >> ELSE <<0>> \o Zeros(k - 1)

\* fmt.Sprintf("%06d", v): the sign, then the digits padded with zeros to a
\* width of six characters in all
Sprintf06d(v) ==
    LET digits == Decimal(v.mag)
        sign == IF v.neg THEN <<"-">> ELSE << >>
    IN sign \o Zeros(6 - Len(sign) - Len(digits)) \o digits

InitRef ==
    /\ QueryIdle
    /\ CodecIdle
    /\ SliceIdle
    /\ chunkRef \in [1..4 -> RefLimbs]
    /\ intBits \in IntWidths
    /\ segNo = << >>
    /\ segOff = << >>
    /\ objKey = << >>
    /\ spc = "called"

\* the first three statements of Chunk(ref), the same in both readers
SplitRef ==
    /\ spc = "called"
    /\ segNo' = ToInt(ShiftRight64(chunkRef, 32), intBits)
    /\ segOff' = ToInt(ShiftRight64(ShiftLeft64(chunkRef, 32), 32), intBits)
    /\ objKey' = Sprintf06d(segNo')
    /\ spc' = "split"
    /\ UNCHANGED << queryVars, codecVars, sliceVars, chunkRef, intBits >>

NextRef == SplitRef

SpecRef == InitRef /\ [][NextRef]_vars

-----------------------------------------------------------------------------
(* Reference definitions the claims are stated with *)

Done == pc = "done"

\* the series references emitted while the i-th value was processed, in order
RECURSIVE RefsOfValue(_, _)
RefsOfValue(es, i) ==
    IF es = << >> THEN << >>
    ELSE IF Head(es).vi = i
         THEN <<Head(es).ref>> \o RefsOfValue(Tail(es), i)
         ELSE RefsOfValue(Tail(es), i)

IsPrefix(s, t) == Len(s) <= Len(t) /\ \A i \in 1..Len(s) : s[i] = t[i]

\* postings(name, value) restricted to the series of metric, in postings order
RestrictedList(name, value, metric) ==
    SortedSeq(PostingsSet(name, value) \cap PostingsSet(MetricNameLabel, metric))

\* postings(key, v1) ++ ... ++ postings(key, vn), each entry with the index of
\* its value
RECURSIVE ConcatPostings(_, _, _)
ConcatPostings(key, values, n) ==
    IF n = 0 THEN << >>
    ELSE ConcatPostings(key, values, n - 1)
         \o [j \in 1..Len(PostingsList(key, values[n])) |->
                [vi |-> n, ref |-> PostingsList(key, values[n])[j]]]

\* a sample passes when its value is finite and its timestamp is in the window
Passes(x) ==
    /\ x.v.kind \notin {"nan", "pinf", "ninf"}
    /\ minTimestamp <= x.t
    /\ x.t <= maxTimestamp

KeptIndexes(s) == {i \in 1..Len(s) : Passes(s[i])}

\* the subsequence of s made of its passing samples, in original order
PassingSubsequence(s) ==
    [j \in 1..Cardinality(KeptIndexes(s)) |->
        s[CHOOSE i \in KeptIndexes(s) :
              Cardinality({k \in KeptIndexes(s) : k <= i}) = j]]

\* what the sink is to receive for the chunks cs of series r: one write per
\* chunk with a passing sample
RECURSIVE ExpectedWrites(_, _)
ExpectedWrites(r, cs) ==
    IF cs = << >> THEN << >>
    ELSE LET kept == PassingSubsequence(BlockChunks[Head(cs)])
         IN (IF Len(kept) = 0 THEN << >>
             ELSE << [op |-> "write", ref |-> r, chunk |-> Head(cs),
                      labels |-> BlockSeries[r].lset \o externalLabels, metas |-> << >>,
                      timestamps |-> Timestamps(kept), values |-> Values(kept)] >>)
            \o ExpectedWrites(r, Tail(cs))

\* the line runDumpIndex is to print for series r
ExpectedLine(r) ==
    [op |-> "line", ref |-> r, chunk |-> 0,
     labels |-> [n \in {BlockSeries[r].lset[i][1] : i \in 1..Len(BlockSeries[r].lset)} |->
                    CHOOSE v \in {BlockSeries[r].lset[i][2] : i \in 1..Len(BlockSeries[r].lset)} :
                        HasLabel(r, n, v)],
     metas |-> BlockSeries[r].chks, timestamps |-> << >>, values |-> << >>]

\* the whole output of a query that emits the series refs
RECURSIVE ExpectedOutput(_)
ExpectedOutput(refs) ==
    IF refs = << >> THEN << >>
    ELSE (IF mode = "run"
          THEN ExpectedWrites(Head(refs), BlockSeries[Head(refs)].chks)
          ELSE << ExpectedLine(Head(refs)) >>)
         \o ExpectedOutput(Tail(refs))

\* the output so far, without the bookkeeping fields of the calls
SinkView ==
    [i \in 1..Len(sink) |->
        [op |-> sink[i].op, ref |-> sink[i].ref, chunk |-> sink[i].chunk,
         labels |-> sink[i].labels, metas |-> sink[i].metas,
         timestamps |-> sink[i].timestamps, values |-> sink[i].values]]

\* the chunk whose fetch or decoding ended the run, when there is one
ChunkFailed ==
    /\ Done
    /\ fault.kind \in {"chunk", "iter"}
    /\ ci \in 1..Len(chks)
    /\ chks[ci] = fault.at

-----------------------------------------------------------------------------
(* Claims *)

\* C1: with a non-empty metricName, for every value of labelValues (the second
\* and later ones included) the series emitted for it are exactly
\* postings(labelKey, v) intersected with postings(__name__, metricName), in
\* postings order.
C1_EveryValueIntersected ==
    (Done /\ fault = NoFault /\ metricName # "")
        => \A i \in 1..Len(lvs) :
              RefsOfValue(emitted, i) = RestrictedList(lk, lvs[i], metricName)

\* C2: with no metric restriction the series materialized for labelValues
\* v1..vn are postings(k, v1) ++ ... ++ postings(k, vn) in that order, each
\* value exhausted before the next starts, without cross-value deduplication.
C2_Concatenation ==
    (metricName = "" /\ labelKey # "")
        => /\ IsPrefix(emitted,
                       ConcatPostings(labelKey, labelValues, Len(labelValues)))
           /\ (Done /\ fault = NoFault)
                 => emitted = ConcatPostings(labelKey, labelValues, Len(labelValues))

\* a finished query in which the same series was materialized under two values
C2_Witness ==
    /\ Done /\ fault = NoFault /\ metricName = "" /\ labelKey # ""
    /\ \E i, j \in 1..Len(emitted) :
          i < j /\ emitted[i].ref = emitted[j].ref /\ emitted[i].vi # emitted[j].vi

\* C3: the (timestamps, values) handed to the sink for a chunk are exactly the
\* subsequence of its decoded samples whose value is neither NaN nor +Inf nor
\* -Inf and whose timestamp t has minTimestamp <= t <= maxTimestamp, in the
\* original order.
C3_FilterExact ==
    \A i \in 1..Len(sink) :
        sink[i].op = "write"
            => /\ sink[i].timestamps
                    = Timestamps(PassingSubsequence(BlockChunks[sink[i].chunk]))
               /\ sink[i].values
                    = Values(PassingSubsequence(BlockChunks[sink[i].chunk]))

\* a write that kept samples on both bounds of a narrow window and dropped
\* NaN in between
C3_Witness ==
    /\ minTimestamp = 1 /\ maxTimestamp = 3
    /\ \E i \in 1..Len(sink) :
          /\ sink[i].op = "write"
          /\ sink[i].timestamps = <<1, 3>>
          /\ Len(BlockChunks[sink[i].chunk]) > Len(sink[i].timestamps)

\* C4: if the sample iterator of a fetched chunk reports an error, run returns
\* a non-nil error; it never returns success after a chunk decode error.
C4_IterErrorReturned ==
    (ChunkFailed /\ fault.kind = "iter") => ret # NilErr

\* the index is open and the chunk reader made: the fallback of the key is past
Prepared ==
    /\ pc \notin {"main", "decode", "start"}
    /\ fault.kind \notin {"externalLabels", "openIndex", "chunkReader"}

\* C7: with an empty labelKey the output is the output of the match-all key
\* and value: the labelValues supplied are ignored and a non-empty metricName
\* still restricts the result to the postings of that metric.
C7_EmptyKeyIsMatchAll ==
    labelKey = ""
        => /\ Prepared => (lk = AllPostingsKey.key /\ lvs = <<AllPostingsKey.value>>)
           /\ (Done /\ fault = NoFault)
                 => /\ ret = NilErr
                    /\ RefsOfValue(emitted, 1)
                         = (IF metricName = ""
                            THEN PostingsList(AllPostingsKey.key, AllPostingsKey.value)
                            ELSE RestrictedList(AllPostingsKey.key,
                                                AllPostingsKey.value, metricName))
                    /\ Len(emitted) = Len(RefsOfValue(emitted, 1))
                    /\ SinkView = ExpectedOutput(RefsOfValue(emitted, 1))

\* a finished match-all query that was given label values and a metric name
C7_Witness ==
    /\ Done /\ fault = NoFault /\ labelKey = ""
    /\ Len(labelValues) = 2 /\ metricName = "up"
    /\ Len(emitted) = 3 /\ Len(sink) >= 3

\* the (emission, chunk index) pairs whose chunk run has dealt with
Processed(e, c) ==
    \/ e < Len(emitted)
    \/ e = Len(emitted) /\ c < ci

\* C8: Write is called at most once per (emitted series, chunk), exactly when
\* the chunk has a sample left after filtering, with a non-empty timestamp
\* sequence and as many values; a chunk filtered to nothing produces no call
\* and does not stop the later chunks.
C8_WriteOncePerNonEmptyChunk ==
    mode = "run"
        => /\ \A i \in 1..Len(sink) :
                 /\ Len(sink[i].timestamps) >= 1
                 /\ Len(sink[i].values) = Len(sink[i].timestamps)
                 /\ sink[i].ei \in 1..Len(emitted)
                 /\ sink[i].ei = Len(emitted) => sink[i].ci <= ci
           /\ \A i, j \in 1..Len(sink) :
                 (i # j) => <<sink[i].ei, sink[i].ci>> # <<sink[j].ei, sink[j].ci>>
           /\ \A e \in 1..Len(emitted) :
                 \A c \in 1..Len(BlockSeries[emitted[e].ref].chks) :
                    Processed(e, c)
                        => ((\E i \in 1..Len(sink) : sink[i].ei = e /\ sink[i].ci = c)
                              <=> Len(PassingSubsequence(
                                        BlockChunks[BlockSeries[emitted[e].ref].chks[c]])) > 0)

\* series 1 is done: its second chunk was filtered to nothing and produced no
\* call, its third chunk was written
C8_Witness ==
    /\ Done /\ fault = NoFault /\ mode = "run"
    /\ \E e \in 1..Len(emitted) :
          /\ emitted[e].ref = 1
          /\ ~ \E i \in 1..Len(sink) : sink[i].ei = e /\ sink[i].ci = 2
          /\ \E i \in 1..Len(sink) : sink[i].ei = e /\ sink[i].ci = 3

\* C9 as stated: when fetching or decoding a chunk of a series fails, the sink
\* has received no output for that series.
C9_NoOutputForFailedSeries ==
    ChunkFailed => \A i \in 1..Len(sink) : sink[i].ei # Len(emitted)

\* C9 amended: when fetching or decoding a chunk of a series fails, the sink
\* has received nothing for that chunk or a later one; what it has received
\* is the output of the earlier series and of the earlier chunks of the
\* failing series, written before the error.
C9_NoOutputFromFailedChunkOn ==
    ChunkFailed
        => /\ \A i \in 1..Len(sink) :
                 \/ sink[i].ei < Len(emitted)
                 \/ sink[i].ei = Len(emitted) /\ sink[i].ci < ci
           /\ SinkView
                = ExpectedOutput([e \in 1..(Len(emitted) - 1) |-> emitted[e].ref])
                  \o ExpectedWrites(ref, SubSeq(chks, 1, ci - 1))

\* a chunk of a series failed after an earlier chunk of it was written
C9_Witness ==
    /\ ChunkFailed
    /\ \E i \in 1..Len(sink) : sink[i].ei = Len(emitted) /\ sink[i].ci < ci

\* C10 as stated: if a postings lookup (or the intersection) fails for a value
\* of labelValues, the query ends with an error and nothing was emitted
\* before it.
C10_NothingEmittedBeforeError ==
    (Done /\ ret \in {"indexr.Postings", "postings.Err"})
        => (emitted = << >> /\ sink = << >>)

\* C10 amended: if the postings lookup of a value fails, the query ends with
\* an error and nothing is emitted for that value or a later one, the series
\* of the earlier values having been written before; an error of the postings
\* iterator is seen once the iterator is exhausted, after the series it
\* yielded were written.
C10_ErrorEndsQueryAtItsValue ==
    /\ (Done /\ fault.kind = "postings" /\ fault.at <= Len(lvs))
          => /\ ret = "indexr.Postings"
             /\ vi = fault.at
             /\ \A i \in 1..Len(emitted) : emitted[i].vi < fault.at
             /\ \A i \in 1..Len(sink) : sink[i].vi < fault.at
    /\ (Done /\ fault.kind = "postingsErr" /\ fault.at <= Len(lvs))
          => /\ ret = "postings.Err"
             /\ vi = fault.at
             /\ \A i \in 1..Len(emitted) : emitted[i].vi <= fault.at
             /\ \A i \in 1..Len(sink) : sink[i].vi <= fault.at

\* the lookup of the second value failed after series of the first were written
C10_Witness ==
    /\ Done /\ ret = "indexr.Postings" /\ vi = 2
    /\ \E i \in 1..Len(sink) : sink[i].vi = 1

\* C5: for every stored record and every single bit of its payload or of its
\* 4-byte trailing checksum, decoding the record with that bit flipped fails
\* with the checksum error and no chunk is returned; the checksum compared is
\* the CRC-32C over encoding byte and payload, so the record as stored is
\* never refused for its checksum.
C5_BitFlipDetected ==
    (cpc \in {"local", "s3"} /\ offset = stored.at /\ cut = -1)
        => /\ flip >= 0 => (~result.ok /\ result.err = "checksum mismatch")
           /\ flip = -1 => result.err # "checksum mismatch"

\* a record with a flipped payload bit was refused by the local reader
C5_Witness ==
    /\ cpc = "local"
    /\ flip >= 0 /\ flip < 8 * Len(stored.payload)
    /\ ~result.ok

\* C6: for 0 <= start <= end <= Len() (start = end included) Range(start, end)
\* returns exactly the end-start bytes [start, end) of the object and the
\* backend receives the range header bytes=<start>-<end-1>.
C6_RangeExact ==
    (got.called /\ got.op = "Range" /\ got.net = "answer")
        => /\ ~got.panicked
           /\ got.data = Slice(object, got.start, got.end)
           /\ requests[Len(requests)]
                = Request("GET", "index", got.start, got.end - 1, TRUE)

\* the record is read as it was stored, at the offset it was stored at
ReadIntact == cpc \in {"local", "s3"} /\ offset = stored.at /\ flip = -1 /\ cut = -1

\* C11 as stated: for every encoding byte and payload the record stored at
\* offset o decodes, through both readers, to a chunk with that encoding and
\* that payload.
C11_RoundTripEveryEncoding ==
    ReadIntact
        => /\ result.ok
           /\ result.enc = stored.enc
           /\ result.payload = stored.payload

\* C11 amended: for every payload, the record stored at offset o with the
\* encoding byte chunkenc.FromData knows (EncXOR) decodes, through both
\* readers, to a chunk with that encoding and that payload; with any other
\* encoding byte the call returns the error of chunkenc.FromData and no chunk.
C11_RoundTripKnownEncoding ==
    ReadIntact
        => IF stored.enc = EncXOR
           THEN /\ result.ok
                /\ result.enc = stored.enc
                /\ result.payload = stored.payload
           ELSE /\ ~result.ok
                /\ result.err = "unknown chunk encoding"

\* a record with a payload of two bytes came back from the remote reader
C11_Witness ==
    /\ ReadIntact
    /\ cpc = "s3"
    /\ stored.enc = EncXOR
    /\ Len(stored.payload) = 2
    /\ result.ok

\* the two-limb number a sequence of decimal digits denotes
RECURSIVE DigitsValue(_)
DigitsValue(ds) ==
    IF ds = << >> THEN <<0, 0>>
    ELSE LET m == DigitsValue(SubSeq(ds, 1, Len(ds) - 1))
             lo == m[2] * 10 + ds[Len(ds)]
         IN <<m[1] * 10 + (lo \div Limb), lo % Limb>>

\* C12: for every 64-bit reference, Chunk reads the segment numbered
\* floor(ref / 2^32) at byte offset ref mod 2^32, so segment * 2^32 + offset
\* = ref, and the segment locator is that segment number in decimal, padded
\* with zeros to six digits.
C12_RefSplitExact ==
    spc = "split"
        => /\ segNo = [neg |-> FALSE, mag |-> <<chunkRef[1], chunkRef[2]>>]
           /\ segOff = [neg |-> FALSE, mag |-> <<chunkRef[3], chunkRef[4]>>]
           /\ Len(objKey) >= 6
           /\ \A i \in 1..Len(objKey) : objKey[i] \in 0..9
           /\ Len(objKey) > 6 => objKey[1] # 0
           /\ DigitsValue(objKey) = <<chunkRef[1], chunkRef[2]>>

\* the call was made on the segment as stored, with an offset inside the stored
\* record but not at its start, or at or past the end of the segment
ReadOffRecord ==
    /\ cpc \in {"local", "s3"}
    /\ flip = -1
    /\ cut = -1
    /\ \/ stored.at < offset /\ offset < stored.at + RecordLen
       \/ offset >= Len(segment)

\* the bytes of seg from offset off on are a record of encoding enc and payload
\* payload: a length varint of n bytes with the value Len(payload), the
\* encoding byte, the payload and the CRC-32C of encoding byte and payload
WellFormedAt(seg, off, enc, payload) ==
    \E n \in 1..(MaxChunkLengthFieldSize + ChunkEncodingSize) :
        LET L == Len(payload)
            rec == Slice(seg, off, Min(off + n + 1 + L + 4, Len(seg)))
        IN /\ Len(rec) = n + 1 + L + 4
           /\ \A i \in 1..(n - 1) : rec[i] >= 128
           /\ rec[n] < 128
           /\ Uvarint(SubSeq(rec, 1, n)).value = L
           /\ rec[n + 1] = enc
           /\ Slice(rec, n + 1, n + 1 + L) = payload
           /\ Slice(rec, n + 1 + L, n + 1 + L + 4) = CrcSum(<<enc>> \o payload)

ReadAtRecord ==
    cpc \in {"local", "s3"} /\ offset = stored.at /\ flip = -1

\* the bytes n + 1 + L + 4 of the stored record
StoredTotal ==
    Len(PutUvarint(Len(stored.payload))) + 1 + Len(stored.payload) + 4

\* C19: for a record at offset o whose length varint has n bytes and encodes
\* L, Chunk reads exactly the n + 1 + L + 4 bytes [o, o + n + 1 + L + 4), the
\* remote reader with the range o-(o+n+L+4); when the segment holds fewer
\* bytes than that from o on, Chunk fails and returns no record.
C19_ReadsExactlyTheRecord ==
    ReadAtRecord
        => /\ cut = -1
                => /\ Len(result.reads) = 2
                   /\ cpc = "local"
                         => result.reads[2] = <<offset, StoredTotal>>
                   /\ cpc = "s3"
                         => result.reads[2]
                              = <<offset, offset + StoredTotal - 1>>
           /\ cut >= 0
                => /\ ~result.ok
                   /\ Len(result.reads) = 2
                         => result.reads[2][1] = offset

\* the remote reader asked for a record that the segment holds only a part of
C19_Witness ==
    /\ ReadAtRecord
    /\ cpc = "s3"
    /\ cut >= MaxChunkLengthFieldSize
    /\ result.err = "short chunk data"

\* the window the reader fetches at offset off to parse the length from
HeaderWindow(reader) ==
    IF reader = "local" THEN MaxChunkLengthFieldSize
    ELSE MaxChunkLengthFieldSize + ChunkEncodingSize

\* the segment holds a full length field at offset, and none of the bytes of
\* the reader's window ends a varint
NoTerminator(reader) ==
    /\ offset + MaxChunkLengthFieldSize <= Len(segment)
    /\ \A i \in (offset + 1)..Min(offset + HeaderWindow(reader), Len(segment)) :
          segment[i] >= 128

\* C20: if no byte of the header window at offset ends the varint, Chunk fails
\* with a decode error having made the one header read only: no body fetch and
\* no request for a byte beyond the window, locally and remotely.
C20_MalformedVarintStops ==
    (cpc \in {"local", "s3"} /\ NoTerminator(cpc))
        => /\ ~result.ok
           /\ result.err = "invalid header"
           /\ Len(result.reads) = 1
           /\ result.reads[1][1] = offset
           /\ cpc = "local" => result.reads[1][2] = HeaderWindow("local")
           /\ cpc = "s3" => result.reads[1][2] = offset + HeaderWindow("s3") - 1

\* the remote reader met six bytes none of which ends a varint
C20_Witness ==
    /\ cpc = "s3"
    /\ NoTerminator("s3")
    /\ offset + HeaderWindow("s3") <= Len(segment)
    /\ result.err = "invalid header"

\* the dump has come to an end: run returned, or the process ended in a panic
DumpEnded == rpc \in {"done", "failed", "panicked"}

\* C14: every remote request (the size probe, each index range read, the
\* header fetch and the body fetch of a remote chunk read) is made under a
\* deadline, so that a request never answered ends in a timeout error and the
\* dump eventually ends instead of blocking forever.
C14_EveryRequestBounded ==
    /\ [](\A i \in 1..Len(requests) : requests[i].deadline)
    /\ <>DumpEnded

\* C15: a failed Range on the remote byte source reaches its caller as an
\* error outcome, a deadline or cancellation apart from every other error, and
\* the dump that issued the read ends with that error.
C15_RangeFailureIsError ==
    (got.called /\ got.op = "Range" /\ got.err # NilErr)
        => /\ ~got.panicked
           /\ got.data = << >>
           /\ rpc = "failed"
           /\ opErr.cause = got.err

\* the requests of one kind the backend of the index object has received
IndexRequests(op) ==
    { i \in 1..Len(requests) : requests[i].op = op /\ requests[i].key = "index" }

\* C16: construction issues exactly one HEAD and fails, with no instance, when
\* the request errs or reports no content length; afterwards Len() returns the
\* probed size without a request and every Range() issues exactly one GET, so
\* after construction and k Range() calls the backend has received exactly
\* 1 HEAD and k GETs.
C16_OneHeadAndOneGetPerRange ==
    /\ rpc = "new" => requests = << >>
    /\ rpc # "new"
          => /\ Cardinality(IndexRequests("HEAD")) = 1
             /\ requests[1] = Request("HEAD", "index", 0, 0, TRUE)
             /\ Cardinality(IndexRequests("GET")) = calls.range
    /\ got.op = "New"
          => /\ IndexRequests("GET") = {}
             /\ got.net = "answer"
                   => /\ size = Len(object)
                      /\ calls = NoCalls => rpc \in {"ready", "done"}
             /\ got.net # "answer"
                   => /\ rpc = "failed"
                      /\ size = 0
                      /\ calls = NoCalls
                      /\ opErr.cause = got.err
    /\ got.op = "Len" => got.end = Len(object)

\* the same span was read twice, and Len() was called after that
C16_Witness ==
    /\ calls.range = 2
    /\ Len(requests) = 3
    /\ requests[2] = requests[3]
    /\ got.op = "Len"

\* C17: with external labels supplied, the label list handed to the sink for
\* a series is the series' own labels followed by every external label, none
\* left out for having the name of a label of the series.
C17_ExternalLabelsAppended ==
    \A i \in 1..Len(sink) :
        sink[i].op = "write"
            => LET own == BlockSeries[sink[i].ref].lset
                   l == sink[i].labels
               IN /\ Len(l) = Len(own) + Cardinality(externalLabelsMap)
                  /\ SubSeq(l, 1, Len(own)) = own
                  /\ { l[j] : j \in (Len(own) + 1)..Len(l) } = externalLabelsMap

\* a series with the label k was handed over with the external label k as well
C17_Witness ==
    \E i \in 1..Len(sink) :
        /\ sink[i].op = "write"
        /\ sink[i].ok
        /\ Cardinality({ j \in 1..Len(sink[i].labels) :
                            sink[i].labels[j][1] = "k" }) = 2

HeaderBad ==
    \/ offset >= Len(segment)
    \/ Len(segment) - offset < MaxChunkLengthFieldSize
    \/ NoTerminator("s3")

Agree(a, b) ==
    /\ a.ok = b.ok
    /\ a.ok => (a.enc = b.enc /\ a.payload = b.payload)

\* C22: for the same segment bytes and the same reference the local and the
\* remote reader agree: both fail, or both return the same encoding and
\* payload, for every segment content and every offset.
C22_ReadersAgree ==
    /\ cpc = "local" => Agree(result, S3Chunk(segment, offset))
    /\ cpc = "s3" => Agree(result, LocalChunk(segment, offset))

\* C23: when NewWriter rejects the output format name, run returns an error,
\* and does so before it opens the index or fetches a chunk; the sink is never
\* invoked in that run.
C23_RejectedFormatIsError ==
    (pc \notin {"main", "decode"} /\ NewWriter(outFormat).err # NilErr)
        => /\ pc = "done"
           /\ ret # NilErr
           /\ emitted = << >>
           /\ sink = << >>

\* the parts of the flag v between its commas, each cut down to what lies
\* between its first and its last character that is no white space, the empty
\* ones left out
ExpectedParts(v) ==
    LET commas == {i \in 1..Len(v) : v[i] = ","}
        n == Cardinality(commas) + 1
        cutAt(k) == IF k = 0 THEN 0
                    ELSE IF k = n THEN Len(v) + 1
                    ELSE CHOOSE i \in commas :
                             Cardinality({j \in commas : j < i}) = k - 1
        piece(k) == SubSeq(v, cutAt(k - 1) + 1, cutAt(k) - 1)
        core(p) == LET ns == {i \in 1..Len(p) : ~IsSpace(p[i])}
                   IN IF ns = {} THEN << >>
                      ELSE SubSeq(p,
                                  CHOOSE i \in ns : \A j \in ns : i <= j,
                                  CHOOSE i \in ns : \A j \in ns : j <= i)
    IN SelectSeq([k \in 1..n |-> String(core(piece(k)))], LAMBDA x : x # "")

\* run with a labelKey and an empty list of values, the flag parsed
EmptyValuesRun ==
    mode = "run" /\ labelKey # "" /\ pc # "main" /\ labelValues = << >>

\* no postings lookup for labelKey was made and the sink was not called
NoLookupNoWrite ==
    /\ postings = NoPostings
    /\ pc \notin {"series", "chunk", "panicked"}
    /\ ret # "indexr.Postings"
    /\ emitted = << >>
    /\ sink = << >>

\* a step of run before the loop over labelValues fails
PrologueFails ==
    \/ fault.kind \in {"externalLabels", "openIndex", "chunkReader"}
    \/ fault.kind = "metricPostings" /\ metricName # ""

\* C24 (as stated): with a labelKey and an empty parsed labelValues list run
\* makes no postings lookup for labelKey, no sink call, and returns success;
\* parseLabelValues returns the comma-separated parts of the flag trimmed of
\* white space, in their order, the empty ones removed.
C24_EmptyValuesSucceed ==
    /\ pc # "main" => labelValues = ExpectedParts(labelValue)
    /\ EmptyValuesRun => (NoLookupNoWrite /\ (Done => ret = NilErr))

\* C24 (amended): as above, but run returns success only if no step before the
\* loop fails (external labels, index, chunk reader, metric name lookup); if
\* one does, run returns that step's error.
C24_EmptyValuesSucceedUnlessPrologueFails ==
    /\ pc # "main" => labelValues = ExpectedParts(labelValue)
    /\ EmptyValuesRun
          => /\ NoLookupNoWrite
             /\ Done => (ret = NilErr <=> ~PrologueFails)

C24_Witness ==
    /\ EmptyValuesRun
    /\ \E i, j \in 1..Len(labelValue) : labelValue[i] = "," /\ IsSpace(labelValue[j])
    /\ metricName = "up"
    /\ Done
    /\ ret = NilErr

\* the names and values of the own labels of series r
OwnLabels(r) ==
    {BlockSeries[r].lset[j] : j \in 1..Len(BlockSeries[r].lset)}

\* the external labels whose name is the name of an own label of series r
Colliding(r) ==
    {e \in externalLabelsMap : \E o \in OwnLabels(r) : o[1] = e[1]}

\* C25: when an external label has the name of one of the series' own labels,
\* the line the victoriametrics sink writes has one entry of that name, with
\* the external label's value; the series' own value of that name is not in
\* the line.
C25_ExternalLabelWins ==
    \A i \in 1..Len(sink) :
        (sink[i].op = "write" /\ sink[i].ok)
            => LET metric == sink[i].line.metric
                   r == sink[i].ref
               IN /\ DOMAIN metric
                       = {o[1] : o \in OwnLabels(r)} \cup {e[1] : e \in externalLabelsMap}
                  /\ \A e \in Colliding(r) :
                        /\ metric[e[1]] = e[2]
                        /\ \A o \in OwnLabels(r) :
                              (o[1] = e[1] /\ o[2] # e[2]) => metric[o[1]] # o[2]
                  /\ \A o \in OwnLabels(r) :
                        (\A e \in externalLabelsMap : e[1] # o[1])
                            => metric[o[1]] = o[2]

C25_Witness ==
    \E i \in 1..Len(sink) :
        /\ sink[i].op = "write" /\ sink[i].ok
        /\ <<"k", "a">> \in OwnLabels(sink[i].ref)
        /\ <<"k", "x">> \in Colliding(sink[i].ref)
        /\ Len(externalLabels) = 2
        /\ sink[i].line.metric["k"] = "x"
        /\ sink[i].line.metric["region"] = "eu"

====
